---- MODULE Spec2Model ----
(***************************************************************************)
(* Remote Web Control (src/main.py): one WebSocket connection handled by   *)
(* ws_endpoint (gate, consumer loop, teardown) together with its producer  *)
(* task send_frames (handshake, pacing, capture, duplicate skip, encode,   *)
(* send), and the input translators apply_mouse / apply_key.               *)
(*                                                                         *)
(* asyncio is cooperative: every action below is one task step, from the   *)
(* point a task is resumed to the next await at which it suspends.         *)
(***************************************************************************)
EXTENDS Integers, Sequences, FiniteSets, TLC

VARIABLES
    sessionUser,  \* websocket.session has a truthy "user" (main.py:449-450)
    monitor,      \* host display geometry <<width, height>> (sct.monitors[1])
    screen,       \* host screen content, the bytes sct.grab would return
    clientGone,   \* the client has closed the channel
    hPc,          \* ws_endpoint position
    loopExc,      \* exception that left the consumer loop ("" while in it)
    hExc,         \* exception ws_endpoint ended with ("" if none)
    closeCode,    \* code passed to websocket.close (0: close never called)
    hGeom,        \* ws_endpoint's screen_w, screen_h (main.py:455)
    lastMsg,      \* the text last returned by receive_text (NoMsg before)
    acts,         \* host calls (pynput) made while handling lastMsg
    sPc,          \* send_frames task position
    sErr,         \* exception the send_frames task ended with ("" if none)
    cancelReq,    \* sender.cancel() called, CancelledError not yet delivered
    elapsed,      \* min(now - last, Interval), in clock ticks
    prev_crc,     \* send_frames' prev_crc (NoCrc for None)
    shot,         \* the frame captured by the current iteration
    sent,         \* messages handed to the open channel, in order
    frames,       \* per captured frame: checksum, stored checksum, outcome
    captures,     \* sct.grab calls of the loop, counted up to MaxCaptures
    clock,        \* ticks since the first capture, counted by TickTimed
    conns,        \* with several connections: each one's position, its
                  \* send_frames' prev_crc, its ws_endpoint's geometry, its frames
    cfg,          \* CODEC, WEBP_LOSSLESS, SUBSAMPLING, SCALE, and what the
                  \* imports found: TurboJPEG with numpy, Pillow's formats
    SKIP_DUPLICATE \* configuration RWC_SKIP_DUP (main.py:71)

vars == <<sessionUser, monitor, screen, clientGone, hPc, loopExc, hExc, closeCode, hGeom,
          lastMsg, acts, sPc, sErr, cancelReq, elapsed, prev_crc, shot, sent,
          frames, captures, clock, cfg, conns,
          SKIP_DUPLICATE>>

----------------------------------------------------------------------------
(* Bounds of the model *)

MaxW == 2          \* display widths 1..MaxW
MaxH == 1          \* display heights 1..MaxH
MaxN == 5          \* client numbers range over -1/Den .. MaxN/Den
MaxFrames == 3     \* captured frames recorded per connection
Interval == 2      \* frame_interval = 1/max(1,FPS), in clock ticks
Den == 4           \* client numbers are multiples of 1/Den
MaxPixel == 1      \* a screen buffer is one byte 0..MaxPixel
MaxCaptures == 4   \* the capture counter saturates here
MaxTime == 6       \* TickTimed stops the clock here
ScaleDen == 4      \* SCALE is a multiple of 1/ScaleDen
MaxConns == 2      \* concurrent connections
MaxLog == 2        \* frames recorded per concurrent connection
QUALITY == 90      \* RWC_QUALITY, its default

----------------------------------------------------------------------------
(* JSON values of a client message.  A number n stands for n/Den.          *)

S(str) == [t |-> "str", s |-> str, n |-> 0]
N(num) == [t |-> "num", s |-> "", n |-> num]
B(b) == [t |-> "bool", s |-> "", n |-> IF b THEN 1 ELSE 0]
Null == [t |-> "null", s |-> "", n |-> 0]

\* dict.get(key, default)
Get(evt, key, default) == IF key \in DOMAIN evt THEN evt[key] ELSE default

\* Python truth value of a JSON value: bool(v), `v or ...`, `if v:`
Truthy(v) ==
    CASE v.t = "num" -> v.n # 0
      [] v.t = "bool" -> v.n = 1
      [] v.t = "str" -> v.s # ""
      [] OTHER -> FALSE

\* int(q) of the rational a/b, b > 0: truncation toward zero
Trunc(a, b) == IF a >= 0 THEN a \div b ELSE -((-a) \div b)

\* round(q) of the rational a/b, b > 0: nearest integer, ties to even
Round(a, b) ==
    LET q == a \div b
        r == a - q * b
    IN  IF 2 * r < b THEN q
        ELSE IF 2 * r > b THEN q + 1
        ELSE IF q % 2 = 0 THEN q ELSE q + 1

\* float(v): the value in units of 1/Den, or the exception raised.  No string
\* of the model spells a number.
ToFloat(v) ==
    CASE v.t = "num" -> [exc |-> "", n |-> v.n]
      [] v.t = "bool" -> [exc |-> "", n |-> v.n * Den]
      [] v.t = "str" -> [exc |-> "ValueError", n |-> 0]
      [] OTHER -> [exc |-> "TypeError", n |-> 0]

\* int(v)
ToInt(v) ==
    CASE v.t = "num" -> [exc |-> "", n |-> Trunc(v.n, Den)]
      [] v.t = "bool" -> [exc |-> "", n |-> v.n]
      [] v.t = "str" -> [exc |-> "ValueError", n |-> 0]
      [] OTHER -> [exc |-> "TypeError", n |-> 0]

----------------------------------------------------------------------------
(* Host calls made through pynput *)

Call(op, s, a, b) == [op |-> op, s |-> s, a |-> a, b |-> b]
SetPosition(x, y) == Call("mouse.position", "", x, y)
MousePress(b) == Call("mouse.press", b, 0, 0)
MouseRelease(b) == Call("mouse.release", b, 0, 0)
MouseScroll(dx, dy) == Call("mouse.scroll", "", dx, dy)
KeyPress(k) == Call("keyboard.press", k, 0, 0)
KeyRelease(k) == Call("keyboard.release", k, 0, 0)
KeyType(txt) == Call("keyboard.type", txt, 0, 0)

Done(calls) == [exc |-> "", acts |-> calls]
Raise(e) == [exc |-> e, acts |-> <<>>]

SPECIAL_KEYS ==
    [k \in {"enter", "backspace", "tab", "escape", "esc", "up", "down", "left",
            "right", "delete", "home", "end", "pageup", "pagedown"} |->
        CASE k = "enter" -> "Key.enter"
          [] k = "backspace" -> "Key.backspace"
          [] k = "tab" -> "Key.tab"
          [] k \in {"escape", "esc"} -> "Key.esc"
          [] k = "up" -> "Key.up"
          [] k = "down" -> "Key.down"
          [] k = "left" -> "Key.left"
          [] k = "right" -> "Key.right"
          [] k = "delete" -> "Key.delete"
          [] k = "home" -> "Key.home"
          [] k = "end" -> "Key.end"
          [] k = "pageup" -> "Key.page_up"
          [] OTHER -> "Key.page_down"]

\* str.lower() on the strings of the model
Lower(str) ==
    CASE str = "A" -> "a"
      [] str = "Enter" -> "enter"
      [] str = "F5" -> "f5"
      [] OTHER -> str

\* len(str) == 1 on the strings of the model
SingleChar(str) == str \in {"a", "A", "1", " "}

ButtonOf(btn) ==
    IF btn = S("left") THEN "Button.left"
    ELSE IF btn = S("right") THEN "Button.right"
    ELSE "Button.middle"

apply_mouse(evt, screen_w, screen_h) ==
    LET etype == Get(evt, "etype", Null)
        nx == ToFloat(Get(evt, "nx", N(0)))
        ny == ToFloat(Get(evt, "ny", N(0)))
        x == Trunc(nx.n * screen_w, Den)
        y == Trunc(ny.n * screen_h, Den)
        b == ButtonOf(Get(evt, "button", S("left")))
        dx == ToInt(Get(evt, "dx", N(0)))
        dy == ToInt(Get(evt, "dy", N(0)))
    IN  IF nx.exc # "" THEN Raise(nx.exc)
        ELSE IF ny.exc # "" THEN Raise(ny.exc)
        ELSE IF etype = S("move") THEN Done(<<SetPosition(x, y)>>)
        ELSE IF etype = S("click") THEN
            IF Truthy(Get(evt, "pressed", B(FALSE)))
            THEN Done(<<MousePress(b)>>)
            ELSE Done(<<MouseRelease(b)>>)
        ELSE IF etype = S("dblclick") THEN
            Done(<<SetPosition(x, y),
                   MousePress("Button.left"), MouseRelease("Button.left"),
                   MousePress("Button.left"), MouseRelease("Button.left")>>)
        ELSE IF etype = S("scroll") THEN
            IF dx.exc # "" THEN Raise(dx.exc)
            ELSE IF dy.exc # "" THEN Raise(dy.exc)
            ELSE Done(<<MouseScroll(dx.n, dy.n)>>)
        ELSE Done(<<>>)

\* (variant: a text event is replayed as a press and release of its text)
apply_keyPressText(evt) ==
    LET txt == Get(evt, "text", S(""))
    IN  IF Get(evt, "etype", Null) = S("text") /\ Truthy(txt)
        THEN Done(<<KeyPress(txt.s), KeyRelease(txt.s)>>)
        ELSE Done(<<>>)

apply_key(evt) ==
    LET etype == Get(evt, "etype", Null)
        txt == Get(evt, "text", S(""))
        key == Get(evt, "key", Null)
        key_name == IF Truthy(key) THEN Lower(key.s) ELSE ""
    IN  IF etype = S("text") THEN
            IF ~Truthy(txt) THEN Done(<<>>)
            ELSE IF txt.t = "str" THEN Done(<<KeyType(txt.s)>>)
            ELSE Raise("TypeError")
        ELSE IF Truthy(key) /\ key.t # "str" THEN Raise("AttributeError")
        ELSE IF key_name \notin DOMAIN SPECIAL_KEYS THEN
            IF SingleChar(key_name) THEN Done(<<KeyType(key_name)>>)
            ELSE Done(<<>>)
        ELSE IF etype = S("keydown") THEN Done(<<KeyPress(SPECIAL_KEYS[key_name])>>)
        ELSE IF etype = S("keyup") THEN Done(<<KeyRelease(SPECIAL_KEYS[key_name])>>)
        ELSE Done(<<>>)

\* The body of the consumer loop for one received text (main.py:461-469):
\* the host calls made and the exception that leaves the loop, if any.
\* A text is [json: how json.loads takes it, obj: the object it parses to].
HandleText(data, screen_w, screen_h) ==
    IF data.json = "invalid" THEN Done(<<>>)
    ELSE IF data.json # "object" THEN Raise("AttributeError")
    ELSE IF Get(data.obj, "type", Null) # S("input") THEN Done(<<>>)
    ELSE IF Get(data.obj, "device", Null) = S("mouse")
        THEN apply_mouse(data.obj, screen_w, screen_h)
    ELSE IF Get(data.obj, "device", Null) = S("keyboard")
        THEN apply_key(data.obj)
    ELSE Done(<<>>)

----------------------------------------------------------------------------
(* Texts a client can send *)

Text(obj) == [json |-> "object", obj |-> obj]
NonObject(kind) == [json |-> kind, obj |-> [type |-> Null]]
NoMsg == NonObject("none")

Coords == {N(n) : n \in -1..MaxN} \cup {S("abc")}
Deltas == {N(-Den), N(0), N(Den), S("abc")}
KeyNames == {"enter", "Enter", "a", "A", "f5", ""}

MoveTexts ==
    {Text([type |-> S("input"), device |-> S("mouse"), etype |-> S(e),
           nx |-> x, ny |-> y]) : e \in {"move", "dblclick"}, x \in Coords, y \in Coords}
ClickTexts ==
    {Text([type |-> S("input"), device |-> S("mouse"), etype |-> S("click"),
           button |-> S(b), pressed |-> B(p)]) :
        b \in {"left", "right", "middle", "x1"}, p \in BOOLEAN}
    \cup {Text([type |-> S("input"), device |-> S("mouse"), etype |-> S("click")])}
ScrollTexts ==
    {Text([type |-> S("input"), device |-> S("mouse"), etype |-> S("scroll"),
           dx |-> dx, dy |-> dy]) : dx \in Deltas, dy \in Deltas}
KeyTexts ==
    {Text([type |-> S("input"), device |-> S("keyboard"), etype |-> S(e),
           key |-> S(k)]) : e \in {"keydown", "keyup", "keypress"}, k \in KeyNames}
    \cup {Text([type |-> S("input"), device |-> S("keyboard"), etype |-> S("text"),
                text |-> S(t)]) : t \in {"", "a", "hi"}}
    \cup {Text([type |-> S("input"), device |-> S("keyboard"), etype |-> S("text"),
                text |-> S("a"), key |-> S("enter")]),
          Text([type |-> S("input"), device |-> S("keyboard"), etype |-> S("text"),
                key |-> S("enter")]),
          Text([type |-> S("input"), device |-> S("keyboard"), key |-> S("a")]),
          Text([type |-> S("input"), device |-> S("keyboard"), etype |-> S("keydown"),
                key |-> N(Den)])}
OddTexts ==
    {NonObject("invalid"), NonObject("array"), NonObject("number"), NonObject("null"),
     Text([type |-> S("ping")]),
     Text([device |-> S("mouse"), etype |-> S("move")]),
     Text([type |-> S("input"), device |-> S("gamepad"), etype |-> S("move")]),
     Text([type |-> S("input"), device |-> S("mouse"), etype |-> S("hover"),
           nx |-> N(Den), ny |-> N(Den)]),
     Text([type |-> S("input"), device |-> S("mouse"), etype |-> S("hover"),
           nx |-> Null])}

\* every text of the model
Texts == MoveTexts \cup ClickTexts \cup ScrollTexts \cup KeyTexts \cup OddTexts

\* the texts the streaming specification draws from
CoreTexts ==
    {NonObject("invalid"), NonObject("array"),
     Text([type |-> S("input"), device |-> S("mouse"), etype |-> S("move"),
           nx |-> N(Den), ny |-> N(0)]),
     Text([type |-> S("input"), device |-> S("keyboard"), etype |-> S("text"),
           text |-> S("a")])}

----------------------------------------------------------------------------
(* Host environment *)

Geometries == (1..MaxW) \X (1..MaxH)
Screens == {<<p>> : p \in 0..MaxPixel}
NoCrc == -1

\* zlib.adler32(buffer)
RECURSIVE AdlerSums(_)
AdlerSums(buf) ==
    IF buf = <<>> THEN [a |-> 1, b |-> 0]
    ELSE LET p == AdlerSums(SubSeq(buf, 1, Len(buf) - 1))
             a == (p.a + buf[Len(buf)]) % 65521
         IN  [a |-> a, b |-> (p.b + a) % 65521]
Adler32(buf) == AdlerSums(buf).b * 65536 + AdlerSums(buf).a

\* sct.grab, mss.mss(): the capture backend answers or raises
CaptureOutcomes == {"ok", "ScreenShotError"}

\* ws.send_text / ws.send_bytes once the client is gone: the transport drops
\* the message silently or raises in the calling task
ClosedSendOutcomes == {"dropped", "WebSocketDisconnect"}

\* messages of the server
InfoMsg(geom) == [kind |-> "text", type |-> "info", w |-> geom[1], h |-> geom[2],
                  data |-> <<>>]
FrameMsg(payload) == [kind |-> "binary", type |-> "", w |-> 0, h |-> 0,
                      data |-> payload]

\* SCALE in units of 1/ScaleDen: 0.5, 0.75, 1.0, 1.75
Scales == {2, 3, ScaleDen, 7}

\* the configuration of main.py:67-80 and the outcome of the imports at 44-57;
\* webp and png say what the Pillow build can write (JPEG it always can)
Configs ==
    [CODEC : {"jpeg", "webp", "png"}, WEBP_LOSSLESS : BOOLEAN,
     SUBSAMPLING : {0, 1, 2}, SCALE : Scales, turbo : BOOLEAN,
     webp : {"none", "lossy", "full"}, png : BOOLEAN]

\* the defaults of main.py:67-77 on a host with TurboJPEG and a full Pillow
DefaultConfig ==
    [CODEC |-> "jpeg", WEBP_LOSSLESS |-> FALSE, SUBSAMPLING |-> 0,
     SCALE |-> ScaleDen, turbo |-> TRUE, webp |-> "full", png |-> TRUE]

\* an image: its size and the pixels it was made from
Image(w, h, pixels) == [w |-> w, h |-> h, pixels |-> pixels]

\* one encoded image as a byte stream
Stream(format, quality, subsampling, lossless, img) ==
    [format |-> format, quality |-> quality, subsampling |-> subsampling,
     lossless |-> lossless, w |-> img.w, h |-> img.h, pixels |-> img.pixels]

\* can this Pillow build write the format
Supports(format, lossless) ==
    CASE format = "JPEG" -> TRUE
      [] format = "WEBP" -> cfg.webp = "full" \/ (cfg.webp = "lossy" /\ ~lossless)
      [] format = "PNG" -> cfg.png

\* img.save(buf, format=...): the stream is written to buf in one piece once
\* it is encoded; a format the build cannot write raises before any write
Save(buf, img, format, quality, subsampling, lossless) ==
    IF Supports(format, lossless)
    THEN [exc |-> "", data |-> Append(buf, Stream(format, quality, subsampling, lossless, img))]
    ELSE [exc |-> "OSError", data |-> buf]

\* _pillow_encode (main.py:305-324): the bytes of buf, or the exception
pillow_encode(img_rgb, codec) ==
    IF codec = "jpeg"
    THEN Save(<<>>, img_rgb, "JPEG", QUALITY, cfg.SUBSAMPLING, FALSE)
    ELSE IF codec = "webp"
    THEN LET r == Save(<<>>, img_rgb, "WEBP", QUALITY, 0, cfg.WEBP_LOSSLESS)
         IN  IF r.exc = "" THEN r
             ELSE Save(r.data, img_rgb, "JPEG", QUALITY, 0, FALSE)
    ELSE IF codec = "png"
    THEN Save(<<>>, img_rgb, "PNG", 0, 0, TRUE)
    ELSE [exc |-> "", data |-> <<>>]

\* _turbojpeg_encode_from_bgr (main.py:326-329)
turbojpeg_encode_from_bgr(bgr_np) ==
    [exc |-> "", data |-> <<Stream("JPEG", QUALITY, cfg.SUBSAMPLING, FALSE, bgr_np)>>]

Max(a, b) == IF a >= b THEN a ELSE b

\* sw, sh of main.py:377 and 389
ScaledSize(w, h) ==
    <<Max(1, Trunc(w * cfg.SCALE, ScaleDen)), Max(1, Trunc(h * cfg.SCALE, ScaleDen))>>

\* the image handed to the encoder (main.py:368-391): resized when SCALE is
\* not 1.0, on either path
Resized(w, h, pixels) ==
    IF cfg.SCALE # ScaleDen
    THEN Image(ScaledSize(w, h)[1], ScaledSize(w, h)[2], pixels)
    ELSE Image(w, h, pixels)

\* the result of `await asyncio.to_thread(...)` for a grabbed frame: the
\* payload or the exception.  The capture region is the display.
Encode(frame) ==
    IF cfg.CODEC = "jpeg" /\ cfg.turbo
    THEN turbojpeg_encode_from_bgr(Resized(monitor[1], monitor[2], frame))
    ELSE pillow_encode(Resized(monitor[1], monitor[2], frame), cfg.CODEC)

----------------------------------------------------------------------------
(* The connection *)

\* states of section 4.8, by the position of ws_endpoint
ConnState ==
    CASE hPc \in {"accept", "gate"} -> "CONNECTING"
      [] hPc = "recv" -> "STREAMING"
      [] hPc = "await_sender" -> "CLOSING"
      [] OTHER -> "CLOSED"

\* asyncio.Task.done()
SenderDone == sPc \in {"cancelled", "failed"}
\* the task is suspended at an await (or not yet started): another task may run
SenderSuspended == sPc \in {"start", "handshake", "sleep", "encode", "send"}
\* the event loop can run a step of ws_endpoint
HandlerMayRun == sPc # "top"
\* send_frames is past its handshake and has not ended
Streaming == sPc \in {"handshake", "sleep", "top", "encode", "send"}
\* the task resumes at the top of `while True`
\* (variant: the loop goes on while the encode thread runs)
AtLoopTopEager == sPc \in {"handshake", "sleep", "send", "top", "encode"}

AtLoopTop == sPc \in {"handshake", "sleep", "send", "top"}

Conns == 1..MaxConns

\* the state before a connection, whatever the configuration
InitBase ==
    /\ sessionUser \in BOOLEAN
    /\ SKIP_DUPLICATE \in BOOLEAN
    /\ monitor \in Geometries
    /\ screen \in Screens
    /\ clientGone = FALSE
    /\ hPc = "accept"
    /\ loopExc = ""
    /\ hExc = ""
    /\ closeCode = 0
    /\ hGeom = <<0, 0>>
    /\ lastMsg = NoMsg
    /\ acts = <<>>
    /\ sPc = "none"
    /\ sErr = ""
    /\ cancelReq = FALSE
    /\ elapsed = Interval
    /\ prev_crc = NoCrc
    /\ shot = <<>>
    /\ sent = <<>>
    /\ frames = <<>>
    /\ captures = 0
    /\ clock = 0
    /\ conns = [c \in Conns |-> [pc |-> "new", prev |-> NoCrc, geom |-> <<0, 0>>, log |-> <<>>]]

Init == InitBase /\ cfg = DefaultConfig

hVars == <<hPc, loopExc, hExc, closeCode, hGeom, lastMsg, acts>>
sVars == <<sPc, sErr, elapsed, prev_crc, shot, sent, frames>>
envVars == <<sessionUser, SKIP_DUPLICATE, monitor, screen, clientGone>>
tVars == <<captures, clock, cfg, conns>>

\* await websocket.accept()
Accept ==
    /\ hPc = "accept"
    /\ hPc' = "gate"
    /\ UNCHANGED <<loopExc, hExc, closeCode, hGeom, lastMsg, acts, cancelReq>>
    /\ UNCHANGED sVars
    /\ UNCHANGED envVars
    /\ UNCHANGED tVars

\* (variant: no session check)
GateOpen ==
    /\ hPc = "gate"
    /\ hGeom' = monitor
    /\ sPc' = "start"
    /\ hPc' = "recv"
    /\ UNCHANGED <<closeCode, hExc, loopExc, lastMsg, acts, cancelReq>>
    /\ UNCHANGED <<sErr, elapsed, prev_crc, shot, sent, frames>>
    /\ UNCHANGED envVars
    /\ UNCHANGED tVars

\* the session check, and for an admitted connection the geometry query and
\* create_task, up to the first receive_text
Gate ==
    /\ hPc = "gate"
    /\ IF ~sessionUser
       THEN /\ closeCode' = 4401
            /\ hPc' = "done"
            /\ UNCHANGED <<hExc, hGeom, sPc>>
       ELSE \E o \in CaptureOutcomes :
            IF o # "ok"
            THEN /\ hPc' = "done"
                 /\ hExc' = o
                 /\ UNCHANGED <<closeCode, hGeom, sPc>>
            ELSE /\ hGeom' = monitor
                 /\ sPc' = "start"
                 /\ hPc' = "recv"
                 /\ UNCHANGED <<closeCode, hExc>>
    /\ UNCHANGED <<loopExc, lastMsg, acts, cancelReq>>
    /\ UNCHANGED <<sErr, elapsed, prev_crc, shot, sent, frames>>
    /\ UNCHANGED envVars
    /\ UNCHANGED tVars

\* (variant: the handler returns without cancelling and awaiting the producer)
FinallyNoCancel(e) ==
    /\ loopExc' = e
    /\ hPc' = "done"
    /\ hExc' = IF e = "WebSocketDisconnect" THEN "" ELSE e
    /\ UNCHANGED cancelReq

\* the loop is left with exception e: WebSocketDisconnect is caught, any
\* other propagates; the finally block cancels the producer unless it is
\* done, then awaits it
Finally(e) ==
    /\ loopExc' = e
    /\ IF SenderDone
       THEN /\ hPc' = "done"
            /\ hExc' = IF e = "WebSocketDisconnect" THEN "" ELSE e
            /\ UNCHANGED cancelReq
       ELSE /\ hPc' = "await_sender"
            /\ cancelReq' = TRUE
            /\ UNCHANGED hExc

\* receive_text returns a text of the set M and the loop body handles it
RecvText(M) ==
    /\ hPc = "recv"
    /\ HandlerMayRun
    /\ ~clientGone
    /\ \E data \in M :
        LET r == HandleText(data, hGeom[1], hGeom[2])
        IN  /\ lastMsg' = data
            /\ acts' = r.acts
            /\ IF r.exc = ""
               THEN UNCHANGED <<hPc, loopExc, hExc, cancelReq>>
               ELSE Finally(r.exc)
    /\ UNCHANGED <<closeCode, hGeom>>
    /\ UNCHANGED sVars
    /\ UNCHANGED envVars
    /\ UNCHANGED tVars

\* receive_text raises WebSocketDisconnect
RecvDisconnect ==
    /\ hPc = "recv"
    /\ HandlerMayRun
    /\ clientGone
    /\ Finally("WebSocketDisconnect")
    /\ UNCHANGED <<closeCode, hGeom, lastMsg, acts>>
    /\ UNCHANGED sVars
    /\ UNCHANGED envVars
    /\ UNCHANGED tVars

\* `await sender` returns or raises; suppress(Exception) lets the
\* CancelledError of a cancelled task through
AwaitSender ==
    /\ hPc = "await_sender"
    /\ SenderDone
    /\ hPc' = "done"
    /\ hExc' = IF sPc = "cancelled" THEN "CancelledError"
               ELSE IF loopExc = "WebSocketDisconnect" THEN "" ELSE loopExc
    /\ UNCHANGED <<loopExc, closeCode, hGeom, lastMsg, acts, cancelReq>>
    /\ UNCHANGED sVars
    /\ UNCHANGED envVars
    /\ UNCHANGED tVars

----------------------------------------------------------------------------
(* The producer task send_frames *)

\* the last frame of the log with its outcome set
Outcome(log, o) == [log EXCEPT ![Len(log)].outcome = o]

\* `await ws.send_text/send_bytes(msg)`: the message goes out on an open
\* channel; on a channel the client has left the transport decides.  `next` is
\* the position the task is suspended at when the call does not raise.
\* No check of the connection state precedes the call.
Transmit(msg, next, isFrame) ==
    IF ~clientGone
    THEN /\ sent' = Append(sent, msg)
         /\ sPc' = next
         /\ frames' = IF isFrame THEN Outcome(frames, "sent") ELSE frames
         /\ UNCHANGED sErr
    ELSE \E o \in ClosedSendOutcomes :
         /\ UNCHANGED sent
         /\ frames' = IF isFrame THEN Outcome(frames, "lost") ELSE frames
         /\ IF o = "dropped"
            THEN sPc' = next /\ UNCHANGED sErr
            ELSE sPc' = "failed" /\ sErr' = o

\* (variant: the loop is entered without the handshake)
SenderStartSilent ==
    /\ sPc = "start"
    /\ ~cancelReq
    /\ sPc' = "handshake"
    /\ UNCHANGED <<sErr, sent, frames, elapsed, prev_crc, shot, cancelReq>>
    /\ UNCHANGED hVars
    /\ UNCHANGED envVars
    /\ UNCHANGED tVars

\* first step of the task: screen size, then the handshake (main.py:334-344)
SenderStart ==
    /\ sPc = "start"
    /\ ~cancelReq
    /\ \E o \in CaptureOutcomes :
        IF o # "ok"
        THEN /\ sPc' = "failed"
             /\ sErr' = o
             /\ UNCHANGED <<sent, frames>>
        ELSE Transmit(InfoMsg(monitor), "handshake", FALSE)
    /\ UNCHANGED <<elapsed, prev_crc, shot, cancelReq>>
    /\ UNCHANGED hVars
    /\ UNCHANGED envVars
    /\ UNCHANGED tVars

\* (variant: no pacing)
FrameDueAlways == TRUE

\* the pacing test of main.py:354, negated: a frame is due
FrameDue == elapsed >= Interval

\* loop top, too early for a frame: await asyncio.sleep(0.001)
Pace ==
    /\ AtLoopTop
    /\ ~cancelReq
    /\ ~FrameDue
    /\ sPc' = "sleep"
    /\ UNCHANGED <<sErr, elapsed, prev_crc, shot, sent, frames, cancelReq>>
    /\ UNCHANGED hVars
    /\ UNCHANGED envVars
    /\ UNCHANGED tVars

\* (variant: the comparison inverted)
IsDuplicateInverted(crc) == SKIP_DUPLICATE /\ crc # prev_crc

\* the duplicate test of main.py:362-366 against a stored checksum
IsDuplicateOf(crc, prev) == SKIP_DUPLICATE /\ crc = prev

\* the duplicate test of main.py:362-366: TRUE when the frame is skipped
IsDuplicate(crc) == IsDuplicateOf(crc, prev_crc)

\* the log with one more frame; a skipped frame that repeats the skipped
\* frame before it is not logged again
Logged(log, rec) ==
    IF log # <<>> /\ rec.outcome = "skipped" /\ log[Len(log)] = rec
    THEN log ELSE Append(log, rec)

\* loop top, a frame is due: grab, duplicate test, up to `await to_thread`
\* (or `continue`, which suspends nowhere).  The log holds maxFrames frames.
Capture(maxFrames) ==
    /\ AtLoopTop
    /\ ~cancelReq
    /\ FrameDue
    /\ \/ Len(frames) < maxFrames
       \/ /\ sPc = "top"
          /\ IsDuplicate(Adler32(screen))
          /\ frames[Len(frames)].open = ~clientGone
    /\ elapsed' = 0
    /\ captures' = IF captures < MaxCaptures THEN captures + 1 ELSE captures
    /\ UNCHANGED clock
    /\ \E o \in CaptureOutcomes :
        IF o # "ok"
        THEN /\ sPc' = "failed"
             /\ sErr' = o
             /\ UNCHANGED <<prev_crc, shot, frames>>
        ELSE LET crc == Adler32(screen)
                 rec == [crc |-> crc, stored |-> prev_crc, open |-> ~clientGone,
                         pixels |-> screen, outcome |-> ""]
             IN  /\ shot' = screen
                 /\ UNCHANGED sErr
                 /\ IF IsDuplicate(crc)
                    THEN /\ sPc' = "top"
                         /\ UNCHANGED prev_crc
                         /\ frames' = Logged(frames, [rec EXCEPT !.outcome = "skipped"])
                    ELSE /\ sPc' = "encode"
                         /\ prev_crc' = IF SKIP_DUPLICATE THEN crc ELSE prev_crc
                         /\ frames' = Logged(frames, [rec EXCEPT !.outcome = "inflight"])
    /\ UNCHANGED <<sent, cancelReq>>
    /\ UNCHANGED hVars
    /\ UNCHANGED envVars
    /\ UNCHANGED <<cfg, conns>>

\* the encode thread has finished: data = await ..., await ws.send_bytes(data)
EncodeDone ==
    /\ sPc = "encode"
    /\ ~cancelReq
    /\ IF Encode(shot).exc # ""
       THEN /\ sPc' = "failed"
            /\ sErr' = Encode(shot).exc
            /\ frames' = Outcome(frames, "error")
            /\ UNCHANGED sent
       ELSE Transmit(FrameMsg(Encode(shot).data), "send", TRUE)
    /\ UNCHANGED <<elapsed, prev_crc, shot, cancelReq>>
    /\ UNCHANGED hVars
    /\ UNCHANGED envVars
    /\ UNCHANGED tVars

\* the next step of a cancelled task raises CancelledError at its await
SenderCancelled ==
    /\ cancelReq
    /\ SenderSuspended
    /\ sPc' = "cancelled"
    /\ cancelReq' = FALSE
    /\ frames' = IF sPc = "encode" THEN Outcome(frames, "abandoned") ELSE frames
    /\ UNCHANGED <<sErr, elapsed, prev_crc, shot, sent>>
    /\ UNCHANGED hVars
    /\ UNCHANGED envVars
    /\ UNCHANGED tVars

----------------------------------------------------------------------------
(* The environment *)

ClientDisconnect ==
    /\ hPc \notin {"accept", "done"}
    /\ ~clientGone
    /\ clientGone' = TRUE
    /\ UNCHANGED <<sessionUser, SKIP_DUPLICATE, monitor, screen, cancelReq>>
    /\ UNCHANGED hVars
    /\ UNCHANGED sVars
    /\ UNCHANGED tVars

ScreenChange ==
    /\ hPc = "recv"
    /\ \E f \in Screens \ {screen} : screen' = f
    /\ UNCHANGED <<sessionUser, SKIP_DUPLICATE, monitor, clientGone, cancelReq>>
    /\ UNCHANGED hVars
    /\ UNCHANGED sVars
    /\ UNCHANGED tVars

Tick ==
    /\ hPc = "recv"
    /\ elapsed < Interval
    /\ elapsed' = elapsed + 1
    /\ UNCHANGED <<sPc, sErr, prev_crc, shot, sent, frames, cancelReq>>
    /\ UNCHANGED hVars
    /\ UNCHANGED envVars
    /\ UNCHANGED tVars

\* a tick of a clock that also measures the run of the loop, from its first
\* capture for as long as the loop runs
TickTimed ==
    /\ hPc = "recv"
    /\ clock < MaxTime
    /\ elapsed' = IF elapsed < Interval THEN elapsed + 1 ELSE elapsed
    /\ clock' = IF captures > 0 /\ Streaming THEN clock + 1 ELSE clock
    /\ UNCHANGED <<sPc, sErr, prev_crc, shot, sent, frames, captures, cancelReq>>
    /\ UNCHANGED hVars
    /\ UNCHANGED envVars
    /\ UNCHANGED <<cfg, conns>>

\* the host display changes its geometry
DisplayResize ==
    /\ hPc \in {"gate", "recv"}
    /\ \E g \in Geometries \ {monitor} : monitor' = g
    /\ UNCHANGED <<sessionUser, SKIP_DUPLICATE, screen, clientGone, cancelReq>>
    /\ UNCHANGED hVars
    /\ UNCHANGED sVars
    /\ UNCHANGED tVars

----------------------------------------------------------------------------
(* Several connections at once: each has its own ws_endpoint and send_frames *)
(* coroutine, with their locals; the display and the pynput controllers are *)
(* the host's.                                                              *)

oneVars == <<sessionUser, monitor, screen, clientGone, hPc, loopExc, hExc, closeCode,
             hGeom, sPc, sErr, cancelReq, elapsed, prev_crc, shot, sent, frames,
             captures, clock, cfg, SKIP_DUPLICATE>>

\* (variant: the checksum kept in a module global)
SetPrevGlobal(c, crc) == [k \in Conns |-> [conns[k] EXCEPT !.prev = crc]]

\* `prev_crc = crc` in the send_frames of connection c (main.py:366)
SetPrev(c, crc) == [conns EXCEPT ![c].prev = crc]

\* ws_endpoint of connection c reads the geometry and creates its producer
ConnGate(c) ==
    /\ conns[c].pc = "new"
    /\ conns' = [conns EXCEPT ![c].pc = "streaming", ![c].geom = monitor, ![c].prev = NoCrc]
    /\ UNCHANGED <<lastMsg, acts>>
    /\ UNCHANGED oneVars

\* one iteration of connection c's producer loop that grabs a frame
ConnCapture(c) ==
    /\ conns[c].pc = "streaming"
    /\ Len(conns[c].log) < MaxLog
    /\ LET crc == Adler32(screen)
           rec == [crc |-> crc, stored |-> conns[c].prev, outcome |-> "sent"]
       IN  IF IsDuplicateOf(crc, conns[c].prev)
           THEN conns' = [conns EXCEPT ![c].log = Append(@, [rec EXCEPT !.outcome = "skipped"])]
           ELSE conns' = [(IF SKIP_DUPLICATE THEN SetPrev(c, crc) ELSE conns)
                             EXCEPT ![c].log = Append(@, rec)]
    /\ UNCHANGED <<lastMsg, acts>>
    /\ UNCHANGED oneVars

\* connection c's consumer loop handles a text with its own geometry
ConnInput(c, M) ==
    /\ conns[c].pc = "streaming"
    /\ \E data \in M :
        LET r == HandleText(data, conns[c].geom[1], conns[c].geom[2])
        IN  /\ lastMsg' = data
            /\ acts' = r.acts
            /\ conns' = IF r.exc = "" THEN conns ELSE [conns EXCEPT ![c].pc = "closed"]
    /\ UNCHANGED oneVars

\* connection c ends
ConnClose(c) ==
    /\ conns[c].pc = "streaming"
    /\ conns' = [conns EXCEPT ![c].pc = "closed"]
    /\ UNCHANGED <<lastMsg, acts>>
    /\ UNCHANGED oneVars

\* the screen or the display changes, whatever the connections do
HostChange ==
    /\ \/ /\ \E f \in Screens \ {screen} : screen' = f
          /\ UNCHANGED monitor
       \/ /\ \E g \in Geometries \ {monitor} : monitor' = g
          /\ UNCHANGED screen
    /\ UNCHANGED <<sessionUser, clientGone, hPc, loopExc, hExc, closeCode,
                   hGeom, sPc, sErr, cancelReq, elapsed, prev_crc, shot, sent, frames,
                   captures, clock, cfg, SKIP_DUPLICATE, conns, lastMsg, acts>>

----------------------------------------------------------------------------
(* Specifications *)

\* one connection, streaming
Next ==
    \/ Accept
    \/ Gate
    \/ RecvText(CoreTexts)
    \/ RecvDisconnect
    \/ AwaitSender
    \/ SenderStart
    \/ Pace
    \/ Capture(MaxFrames)
    \/ EncodeDone
    \/ SenderCancelled
    \/ ClientDisconnect
    \/ ScreenChange
    \/ Tick

Spec == Init /\ [][Next]_vars

\* the consumer side of one connection over every text of the model; the
\* producer gets as far as its handshake
NextInput ==
    \/ Accept
    \/ Gate
    \/ RecvText(Texts)
    \/ RecvDisconnect
    \/ AwaitSender
    \/ SenderStart
    \/ SenderCancelled
    \/ ClientDisconnect

SpecInput == Init /\ [][NextInput]_vars

\* the producer loop against a clock
NextPace ==
    \/ Accept
    \/ Gate
    \/ RecvDisconnect
    \/ AwaitSender
    \/ SenderStart
    \/ Pace
    \/ Capture(MaxFrames)
    \/ EncodeDone
    \/ SenderCancelled
    \/ ClientDisconnect
    \/ ScreenChange
    \/ TickTimed

SpecPace == Init /\ [][NextPace]_vars

\* a connection in front of a static screen, with the scheduling of the event
\* loop: each time the running task suspends, the loop polls the socket and
\* runs the handler if it is ready, so the handler is not passed over forever
\* when it is ready again and again (SF); the producer, ready until it ends,
\* gets its steps (WF); time passes.
NextLive ==
    \/ Accept
    \/ Gate
    \/ RecvText(CoreTexts)
    \/ RecvDisconnect
    \/ AwaitSender
    \/ SenderStart
    \/ Pace
    \/ Capture(MaxFrames)
    \/ EncodeDone
    \/ SenderCancelled
    \/ ClientDisconnect
    \/ Tick

\* steps ws_endpoint takes without a new message of the client
HandlerStep == Accept \/ Gate \/ RecvDisconnect \/ AwaitSender
\* steps of the send_frames task
SenderStep == SenderStart \/ Pace \/ Capture(MaxFrames) \/ EncodeDone \/ SenderCancelled

SpecLive ==
    /\ Init
    /\ [][NextLive]_vars
    /\ SF_vars(HandlerStep)
    /\ WF_vars(SenderStep)
    /\ WF_vars(Tick)

\* the first frame of an admitted connection, under every configuration
InitEncode == InitBase /\ sessionUser /\ cfg \in Configs

NextEncode ==
    \/ Accept
    \/ Gate
    \/ SenderStart
    \/ Capture(1)
    \/ EncodeDone

SpecEncode == InitEncode /\ [][NextEncode]_vars

\* admitted connections streaming side by side
InitMulti == InitBase /\ sessionUser /\ cfg = DefaultConfig

NextMulti ==
    \/ \E c \in Conns : ConnGate(c)
    \/ \E c \in Conns : ConnCapture(c)
    \/ \E c \in Conns : ConnInput(c, CoreTexts)
    \/ \E c \in Conns : ConnClose(c)
    \/ HostChange

SpecMulti == InitMulti /\ [][NextMulti]_vars

\* a connection on a host whose display geometry may change
NextGeom ==
    \/ Accept
    \/ Gate
    \/ RecvText(CoreTexts)
    \/ RecvDisconnect
    \/ AwaitSender
    \/ SenderStart
    \/ SenderCancelled
    \/ ClientDisconnect
    \/ DisplayResize

SpecGeom == Init /\ [][NextGeom]_vars

----------------------------------------------------------------------------
(* Input translation: claims C1, C2, C8, C9, C10 *)

\* the last text was a JSON object carrying an input event for device d
IsEvent(d) ==
    /\ lastMsg.json = "object"
    /\ Get(lastMsg.obj, "type", Null) = S("input")
    /\ Get(lastMsg.obj, "device", Null) = S(d)
EventIs(d, e) == IsEvent(d) /\ Get(lastMsg.obj, "etype", Null) = S(e)
Field(k) == Get(lastMsg.obj, k, Null)
IsNum(v) == v.t = "num"
\* the normalized coordinates of the event are numbers (an absent one is 0.0)
NumericCoords == IsNum(Get(lastMsg.obj, "nx", N(0))) /\ IsNum(Get(lastMsg.obj, "ny", N(0)))
CoordX == Get(lastMsg.obj, "nx", N(0)).n
CoordY == Get(lastMsg.obj, "ny", N(0)).n
InUnit(n) == 0 <= n /\ n <= Den
OnScreen(call) ==
    /\ 0 <= call.a /\ call.a <= hGeom[1] - 1
    /\ 0 <= call.b /\ call.b <= hGeom[2] - 1
\* the consumer loop is still reading, or was left by the disconnect alone
NoErrorSignaled == loopExc \in {"", "WebSocketDisconnect"}

\* C1: a mouse 'move' with nx, ny in [0,1] sets the pointer to exactly
\* (round(nx*W), round(ny*H)), and that position lies in [0,W-1] x [0,H-1].
C1_MoveRoundedOnScreen ==
    (EventIs("mouse", "move") /\ NumericCoords /\ InUnit(CoordX) /\ InUnit(CoordY)) =>
        /\ acts = <<SetPosition(Round(CoordX * hGeom[1], Den),
                                Round(CoordY * hGeom[2], Den))>>
        /\ OnScreen(acts[1])

\* C2: whatever numbers a 'move' or 'dblclick' carries as nx, ny, the pointer
\* position set on the host lies in [0,W-1] x [0,H-1].
C2_PositionAlwaysOnScreen ==
    ((EventIs("mouse", "move") \/ EventIs("mouse", "dblclick")) /\ NumericCoords) =>
        \A i \in DOMAIN acts : acts[i].op = "mouse.position" => OnScreen(acts[i])

\* a text that is not a well-formed input event: invalid JSON, JSON that is
\* no object, or an input object whose nx, ny, dx or dy is not a number
Malformed ==
    \/ lastMsg.json \in {"invalid", "array", "number", "null"}
    \/ /\ lastMsg.json = "object"
       /\ Get(lastMsg.obj, "type", Null) = S("input")
       /\ \E k \in {"nx", "ny", "dx", "dy"} \cap DOMAIN lastMsg.obj :
              ~IsNum(lastMsg.obj[k])

\* C8: a malformed text causes no host action and does not end the consumer
\* loop: the connection stays in STREAMING until the client disconnects.
C8_MalformedDropped == Malformed => (acts = <<>> /\ NoErrorSignaled)

\* an input event with an unknown device, an unknown kind for its device, or
\* (for keydown/keyup) a key name that is neither a named key nor one character
UnknownEvent ==
    /\ lastMsg.json = "object"
    /\ Get(lastMsg.obj, "type", Null) = S("input")
    /\ \/ ~IsEvent("mouse") /\ ~IsEvent("keyboard")
       \/ IsEvent("mouse") /\ Field("etype") \notin
              {S("move"), S("click"), S("dblclick"), S("scroll")}
       \/ IsEvent("keyboard") /\ Field("etype") \notin
              {S("keydown"), S("keyup"), S("text")}
       \/ /\ IsEvent("keyboard")
          /\ Field("etype") \in {S("keydown"), S("keyup")}
          /\ Field("key").t = "str"
          /\ Lower(Field("key").s) \notin DOMAIN SPECIAL_KEYS
          /\ ~SingleChar(Lower(Field("key").s))

\* C9: an event with an unknown device, kind or key name is dropped: no host
\* action and no error.
C9_UnknownDropped == (UnknownEvent /\ ~Malformed) => (acts = <<>> /\ NoErrorSignaled)

\* the button a click is meant to act on: the named one, left when unknown
NamedButton ==
    LET b == Get(lastMsg.obj, "button", S("left"))
    IN  IF b = S("right") THEN "Button.right"
        ELSE IF b = S("middle") THEN "Button.middle"
        ELSE "Button.left"

\* C10: a 'click' presses (pressed true) or releases (otherwise) the button
\* the event names, the left button when the name is unknown.
C10_ClickButton ==
    (EventIs("mouse", "click") /\ NumericCoords) =>
        acts = <<IF Get(lastMsg.obj, "pressed", B(FALSE)) = B(TRUE)
                 THEN MousePress(NamedButton) ELSE MouseRelease(NamedButton)>>

\* C11: a keyboard 'text' event makes one keyboard.type call with its text and
\* no keyboard.press or keyboard.release, whatever key it carries; with an
\* empty or missing text it makes no host call.
C11_TextTypedLiterally ==
    EventIs("keyboard", "text") =>
        /\ NoErrorSignaled
        /\ acts = IF Truthy(Get(lastMsg.obj, "text", S("")))
                  THEN <<KeyType(lastMsg.obj.text.s)>>
                  ELSE <<>>
        /\ \A i \in DOMAIN acts :
              acts[i].op \notin {"keyboard.press", "keyboard.release"}

\* a text event that also names a key: the text is typed, the key ignored
C11_Witness ==
    /\ EventIs("keyboard", "text")
    /\ Field("key") = S("enter")
    /\ acts = <<KeyType("a")>>

\* the key of a keydown / keyup event is one printable character
CharKey == Field("key").t = "str" /\ SingleChar(Field("key").s)

\* C16: a single printable character sent as 'keydown' yields exactly one
\* press of that character's key, and sent as 'keyup' exactly one release.
C16_CharKeyDownUp ==
    /\ (EventIs("keyboard", "keydown") /\ CharKey) =>
          acts = <<KeyPress(Lower(Field("key").s))>>
    /\ (EventIs("keyboard", "keyup") /\ CharKey) =>
          acts = <<KeyRelease(Lower(Field("key").s))>>

----------------------------------------------------------------------------
(* Streaming: claims C3 - C7, C17, C18 *)

\* checksum of the last frame transmitted before frame i (NoCrc: none)
RECURSIVE LastSentCrc(_)
LastSentCrc(i) ==
    IF i <= 1 THEN NoCrc
    ELSE IF frames[i - 1].outcome = "sent" THEN frames[i - 1].crc
    ELSE LastSentCrc(i - 1)

\* the stored checksum once frame i has passed the duplicate test
StoredAfter(i) == IF i = Len(frames) THEN prev_crc ELSE frames[i + 1].stored

\* payloads of the transmitted frames, in capture order
RECURSIVE SentPayloads(_)
SentPayloads(i) ==
    IF i = 0 THEN <<>>
    ELSE IF frames[i].outcome = "sent"
         THEN Append(SentPayloads(i - 1), Encode(frames[i].pixels).data)
         ELSE SentPayloads(i - 1)
BinaryData == [i \in 1..(Len(sent) - 1) |-> sent[i + 1].data]

\* C3: with skipDuplicates a frame captured on an open connection is skipped
\* exactly when its checksum equals that of the last transmitted frame (the
\* first frame never is), a skipped frame leaves the stored checksum as it
\* was, and every frame not skipped is transmitted before the next capture;
\* without skipDuplicates no frame is skipped and no checksum is ever stored.
C3_DuplicateSuppression ==
    /\ \A i \in DOMAIN frames :
        /\ frames[i].open =>
              (frames[i].outcome = "skipped" <=>
                  (SKIP_DUPLICATE /\ frames[i].crc = LastSentCrc(i)))
        /\ frames[i].outcome = "skipped" => StoredAfter(i) = frames[i].stored
        /\ (i < Len(frames) /\ frames[i + 1].open) =>
              frames[i].outcome \in {"skipped", "sent"}
        /\ (i < Len(frames) /\ frames[i + 1].open /\ SKIP_DUPLICATE
              /\ frames[i + 1].pixels = frames[i].pixels) =>
              frames[i + 1].outcome = "skipped"
    /\ ~SKIP_DUPLICATE => prev_crc = NoCrc
    /\ sent # <<>> => BinaryData = SentPayloads(Len(frames))

\* two identical frames in a row with skipDuplicates: one transmitted
C3_Witness ==
    /\ SKIP_DUPLICATE
    /\ Len(frames) >= 3
    /\ frames[1].outcome = "sent"
    /\ frames[2].pixels = frames[1].pixels /\ frames[2].outcome = "skipped"
    /\ frames[3].outcome = "sent"

InfoCount == Cardinality({i \in DOMAIN sent : sent[i].type = "info"})

\* C4: the connection's messages are one JSON text 'info' message followed by
\* binary frames only: the handshake is first, is never repeated, and has been
\* sent once the producer of a connected client is past it.
C4_OneHandshakeFirst ==
    /\ InfoCount <= 1
    /\ \A i \in DOMAIN sent :
          IF i = 1 THEN sent[i].kind = "text" /\ sent[i].type = "info"
          ELSE sent[i].kind = "binary"
    /\ (Streaming /\ ~clientGone) => InfoCount = 1
    /\ sent = <<>> => \A i \in DOMAIN frames : frames[i].outcome # "sent"

C4_Witness == InfoCount = 1 /\ Len(sent) >= 3 /\ sPc = "sleep"

\* C5: a connection the session gate denies is closed with code 4401 (a code
\* no other path uses) without a handshake, a producer task, a frame, or a
\* client text read or applied.
C5_DeniedClosed ==
    /\ ~sessionUser =>
          /\ ConnState \in {"CONNECTING", "CLOSED"}
          /\ ConnState = "CLOSED" => closeCode = 4401
          /\ sPc = "none" /\ sent = <<>> /\ frames = <<>>
          /\ lastMsg = NoMsg /\ acts = <<>>
    /\ closeCode # 0 => ~sessionUser

C5_Witness == ~sessionUser /\ ConnState = "CLOSED" /\ closeCode = 4401

ProducerDoneAtReturn ==
    (ConnState = "CLOSED" /\ sPc # "none") =>
        (SenderDone /\ \A i \in DOMAIN frames : frames[i].outcome # "inflight")
NoWriteOnceClosing ==
    ConnState \in {"CLOSING", "CLOSED"} =>
        (sent' = sent /\ ~(sPc = "encode" /\ sPc' = "send"))

\* C6: when the handler has returned, the producer task it created is done;
\* from CLOSING on nothing is written to the connection, and a frame whose
\* encode was in flight then is abandoned.
C6_ProducerStoppedOnClose == []ProducerDoneAtReturn /\ [][NoWriteOnceClosing]_vars

C6_Witness ==
    /\ ConnState = "CLOSED" /\ loopExc = "WebSocketDisconnect"
    /\ sPc = "cancelled"
    /\ frames # <<>> /\ frames[Len(frames)].outcome = "abandoned"

\* C7: a send the producer attempts once the client has disconnected
\* transmits nothing and raises no error in the producer task.
C7_SendWhileClosingIsNoOp ==
    /\ sErr # "WebSocketDisconnect"
    /\ \A i \in DOMAIN frames : frames[i].outcome = "lost" => sPc # "failed"

\* C17: at most one frame is in flight, it is the last one captured and the
\* producer is suspended on its encode; no frame is captured after one still
\* in flight or abandoned; the binary messages are, in capture order, the
\* whole payloads of the frames transmitted, one message per frame.
C17_OneFrameInFlight ==
    /\ \A i \in DOMAIN frames :
        /\ frames[i].outcome \in {"inflight", "abandoned"} => i = Len(frames)
        /\ frames[i].outcome = "inflight" => sPc = "encode"
    /\ sPc = "encode" => (frames # <<>> /\ frames[Len(frames)].outcome = "inflight")
    /\ Cardinality({i \in DOMAIN frames : frames[i].outcome = "sent"})
          = Cardinality({i \in DOMAIN sent : sent[i].kind = "binary"})
    /\ sent # <<>> => BinaryData = SentPayloads(Len(frames))

\* two different frames transmitted one after the other, a third in flight
C17_Witness ==
    /\ Len(frames) = 3 /\ Len(sent) = 3
    /\ frames[1].outcome = "sent" /\ frames[2].outcome = "sent"
    /\ frames[1].pixels # frames[2].pixels
    /\ frames[3].outcome = "inflight"

\* C18: the geometry announced in the handshake is the geometry the consumer
\* loop translates pointer coordinates with, whatever the display did since
\* the connection was set up.
C18_GeometryOnce ==
    \A i \in DOMAIN sent :
        sent[i].type = "info" => <<sent[i].w, sent[i].h>> = hGeom

----------------------------------------------------------------------------
(* Pacing: claim C12.  The clock runs in SpecPace only; one tick is 1/Interval *)
(* of the frame interval, so floor(T*F) is clock \div Interval.              *)

\* the counter and the log have not reached their bounds
Counted == captures < MaxCaptures /\ Len(frames) < MaxFrames

\* C12 as stated: over a run of duration T the number of capture attempts is
\* floor(T*F) plus or minus 1, whatever the time the iterations take.
C12_RateWithinOne ==
    (Streaming /\ Counted) =>
        /\ captures <= clock \div Interval + 1
        /\ captures >= clock \div Interval - 1

\* C12 amended: the number of capture attempts is at most floor(T*F) + 1;
\* it is below floor(T*F) - 1 when iterations take longer than 1/F.
C12_AtMostRate == captures <= clock \div Interval + 1

\* the loop at full rate: third capture two intervals after the first
C12_Witness == Streaming /\ captures = 3 /\ clock = 2 * Interval

----------------------------------------------------------------------------
(* Progress: claims C19, C20 *)

\* C19: the producer loop never keeps the event loop to itself: whenever it
\* runs while the consumer waits for input, it reaches a suspension point (or
\* ends), so that the consumer gets to apply the input that has arrived.
C19_InputNeverStarved == (hPc = "recv" /\ sPc = "top") ~> HandlerMayRun

\* C20: every admitted connection whose client has disconnected reaches
\* CLOSED, the producer task done.
C20_DisconnectReachesClosed ==
    (clientGone /\ hPc \in {"recv", "await_sender"}) ~>
        (ConnState = "CLOSED" /\ SenderDone)

----------------------------------------------------------------------------
(* Encoding: claims C13, C15 *)

\* the Pillow build cannot write what the configuration asks for
Unsupported ==
    \/ cfg.CODEC = "webp" /\ ~Supports("WEBP", cfg.WEBP_LOSSLESS)
    \/ cfg.CODEC = "png" /\ ~Supports("PNG", TRUE)

\* C13: when the backend cannot write the configured codec or mode, encoding
\* a frame does not raise and the producer does not end on it: every payload
\* is one JPEG stream, 4:4:4, at the configured quality, and nothing else.
C13_FallbackToJpeg ==
    Unsupported =>
        /\ sErr # "OSError"
        /\ \A i \in DOMAIN frames : frames[i].outcome # "error"
        /\ \A i \in DOMAIN sent :
              sent[i].kind = "binary" =>
                  /\ Len(sent[i].data) = 1
                  /\ sent[i].data[1].format = "JPEG"
                  /\ sent[i].data[1].subsampling = 0
                  /\ sent[i].data[1].quality = QUALITY

\* C15: with a scale factor other than 1.0 a frame of w x h is sent with
\* max(1, round(w*factor)) x max(1, round(h*factor)) pixels, on the TurboJPEG
\* path and on the Pillow path.
C15_ScaledSizeRounded ==
    cfg.SCALE # ScaleDen =>
        \A i \in DOMAIN sent :
            sent[i].kind = "binary" =>
                \A k \in DOMAIN sent[i].data :
                    /\ sent[i].data[k].w = Max(1, Round(monitor[1] * cfg.SCALE, ScaleDen))
                    /\ sent[i].data[k].h = Max(1, Round(monitor[2] * cfg.SCALE, ScaleDen))

----------------------------------------------------------------------------
(* Sessions: claim C14 *)

\* the checksum of the last frame connection c transmitted before its frame i
RECURSIVE OwnLastSent(_, _)
OwnLastSent(c, i) ==
    IF i <= 1 THEN NoCrc
    ELSE IF conns[c].log[i - 1].outcome = "sent" THEN conns[c].log[i - 1].crc
    ELSE OwnLastSent(c, i - 1)

\* whether a frame is skipped on a connection follows from the frames of that
\* connection alone
OwnChecksumDecides ==
    \A c \in Conns : \A i \in DOMAIN conns[c].log :
        conns[c].log[i].outcome = "skipped" <=>
            (SKIP_DUPLICATE /\ conns[c].log[i].crc = OwnLastSent(c, i))

\* a step that changes the stored checksum or the geometry of a connection is
\* a step of that connection
OthersUntouched ==
    \A c \in Conns :
        (conns'[c].prev # conns[c].prev \/ conns'[c].geom # conns[c].geom) =>
            (conns'[c].pc # conns[c].pc \/ conns'[c].log # conns[c].log)

\* C14: capture state is per connection: a frame is transmitted or skipped on
\* a connection by that connection's own stored checksum, and no step of one
\* connection changes the stored checksum or the geometry of another.
C14_StatePerSession == []OwnChecksumDecides /\ [][OthersUntouched]_vars

\* the same screen sent on both connections, then skipped on the first
C14_Witness ==
    /\ SKIP_DUPLICATE
    /\ Len(conns[1].log) = 2 /\ Len(conns[2].log) = 1
    /\ conns[1].log[1].outcome = "sent" /\ conns[1].log[2].outcome = "skipped"
    /\ conns[2].log[1].outcome = "sent"
    /\ conns[2].log[1].crc = conns[1].log[1].crc
    /\ conns[1].geom # conns[2].geom

----------------------------------------------------------------------------
(* Ownership: claim C21 *)

\* once the producer task has ended, the consumer loop does not go on
\* applying input: a step taken in STREAMING then leaves STREAMING, or
\* receives nothing
NoInputWithoutProducer ==
    (ConnState = "STREAMING" /\ SenderDone) =>
        (ConnState' # "STREAMING" \/ (lastMsg' = lastMsg /\ acts' = acts))

\* C21: while a connection is in STREAMING its producer task is alive: when
\* the producer has ended (capture failure, encode error, failed send) the
\* connection does not stay in STREAMING receiving and applying input.
C21_ProducerAliveWhileStreaming == [][NoInputWithoutProducer]_vars

====
